---- MODULE Spec2Model ----
(***************************************************************************)
(* Document persistence and bundle grouping layer of                       *)
(* examples/document_extraction/supabase_store.py.                         *)
(*                                                                         *)
(* The relational store is modelled as its tables (documents, the parent   *)
(* and child extraction tables, bundles, bundle_documents).  Every public  *)
(* operation opens one connection, runs its statements against a working   *)
(* copy of the tables (the open transaction) and ends by committing or     *)
(* rolling back, as the psycopg connection context does.                   *)
(***************************************************************************)
EXTENDS Integers, Sequences, FiniteSets, TLC

\* ------------------------------------------------------------------ bounds
MaxDocs == 2          \* document ids ever generated
MaxBundles == 2       \* bundle ids ever generated
MaxParents == 2       \* committed parent extraction rows
MaxStoreDocs == 1     \* document ids generated when contexts are passed again
MaxLines == 2         \* child entries of one payload
MaxClock == 3         \* value of now() in the last transaction

None == 0             \* Python None / SQL NULL for ids, org ids and numbers

Orgs == {1, 2}
DocIds == 1..MaxDocs
BundleIds == 1..MaxBundles

\* ------------------------------------------------------- closed enumerations
DOCUMENT_LABELS ==
    {"invoice", "bol", "purchase_order", "inspection",
     "cold_storage_invoice", "usda_inspection", "unknown"}

DOCUMENT_STATUS_VALUES ==
    {"classified", "extracted", "stored", "failed", "soft_deleted"}

\* status of a freshly inserted documents row (column default)
DefaultStatus == "classified"

\* label.strip().lower() on the raw labels the model feeds in
StripLower(label) ==
    CASE label = " Invoice " -> "invoice"
      [] label = "PURCHASE_ORDER" -> "purchase_order"
      [] OTHER -> label

_normalize_document_label(label) ==
    IF StripLower(label) \in DOCUMENT_LABELS THEN StripLower(label) ELSE "unknown"

_ensure_document_status(value) == value \in DOCUMENT_STATUS_VALUES

\* --------------------------------------------------------- value normalizers
\* A Python value is its type and str(value) as a sequence of characters
\* (the isoformat() text for dates); the absent marker is None.
Py(kind, text) == [kind |-> kind, text |-> text]

PyNone == Py("NoneType", <<>>)

\* what a call did: the exception it raised ("" = none) and what it returned
Returns(val) == [raised |-> "", val |-> val]

Raises(exception) == [raised |-> exception, val |-> PyNone]

MinOf(S) == CHOOSE x \in S : \A y \in S : x <= y

MaxOf(S) == CHOOSE x \in S : \A y \in S : x >= y

Whitespace == {" ", "\t", "\n"}

\* str.strip()
strip(s) ==
    LET keep == {i \in DOMAIN s : s[i] \notin Whitespace}
    IN IF keep = {} THEN <<>> ELSE SubSeq(s, MinOf(keep), MaxOf(keep))

UpperChars ==
    <<"A", "B", "C", "D", "E", "F", "G", "H", "I", "J", "K", "L", "M",
      "N", "O", "P", "Q", "R", "S", "T", "U", "V", "W", "X", "Y", "Z">>

LowerChars ==
    <<"a", "b", "c", "d", "e", "f", "g", "h", "i", "j", "k", "l", "m",
      "n", "o", "p", "q", "r", "s", "t", "u", "v", "w", "x", "y", "z">>

\* str.lower()
lower(s) ==
    [i \in DOMAIN s |->
        IF \E k \in DOMAIN UpperChars : UpperChars[k] = s[i]
        THEN LowerChars[CHOOSE k \in DOMAIN UpperChars : UpperChars[k] = s[i]]
        ELSE s[i]]

DigitChars == <<"0", "1", "2", "3", "4", "5", "6", "7", "8", "9">>

IsDigit(c) == \E i \in DOMAIN DigitChars : DigitChars[i] = c

DigitValue(c) == (CHOOSE i \in DOMAIN DigitChars : DigitChars[i] = c) - 1

AllDigits(s) == s # <<>> /\ \A i \in DOMAIN s : IsDigit(s[i])

RECURSIVE ToNat(_)
ToNat(s) ==
    IF s = <<>> THEN 0
    ELSE ToNat(SubSeq(s, 1, Len(s) - 1)) * 10 + DigitValue(s[Len(s)])

RECURSIVE NatText(_)
NatText(n) ==
    IF n < 10 THEN <<DigitChars[n + 1]>>
    ELSE NatText(n \div 10) \o <<DigitChars[(n % 10) + 1]>>

RECURSIVE Pow10(_)
Pow10(n) == IF n = 0 THEN 1 ELSE 10 * Pow10(n - 1)

\* index of the first character of s that is in chars, 0 when there is none
IndexOf(s, chars) ==
    LET hits == {i \in DOMAIN s : s[i] \in chars}
    IN IF hits = {} THEN 0 ELSE MinOf(hits)

Unsigned(s) == IF s # <<>> /\ s[1] \in {"+", "-"} THEN Tail(s) ELSE s

Num(class, neg, coeff, exp) ==
    [class |-> class, neg |-> neg, coeff |-> coeff, exp |-> exp]

\* the numeric-string syntax Decimal(text) and float(text) share: a sign,
\* then inf, infinity or nan in any case, or digits with an optional point
\* and an optional exponent; the value is (-1)^neg * coeff * 10^exp
ParseNumber(text) ==
    LET s == strip(text)
        neg == s # <<>> /\ s[1] = "-"
        body == lower(Unsigned(s))
        e == IndexOf(body, {"e"})
        m == IF e = 0 THEN body ELSE SubSeq(body, 1, e - 1)
        x == IF e = 0 THEN <<>> ELSE SubSeq(body, e + 1, Len(body))
        dot == IndexOf(m, {"."})
        whole == IF dot = 0 THEN m ELSE SubSeq(m, 1, dot - 1)
        frac == IF dot = 0 THEN <<>> ELSE SubSeq(m, dot + 1, Len(m))
        digits == whole \o frac
    IN IF body \in {<<"i", "n", "f">>, <<"i", "n", "f", "i", "n", "i", "t", "y">>}
       THEN Num("inf", neg, 0, 0)
       ELSE IF body = <<"n", "a", "n">> THEN Num("nan", neg, 0, 0)
       ELSE IF AllDigits(digits) /\ (e = 0 \/ AllDigits(Unsigned(x)))
       THEN Num("finite", neg, ToNat(digits),
                (IF e = 0 THEN 0
                 ELSE IF x[1] = "-" THEN 0 - ToNat(Unsigned(x))
                 ELSE ToNat(Unsigned(x))) - Len(frac))
       ELSE Num("invalid", FALSE, 0, 0)

\* decimal.Decimal(text): raises InvalidOperation on any other text
Decimal(text) ==
    IF ParseNumber(text).class = "invalid" THEN Raises("InvalidOperation")
    ELSE Returns(Py("Decimal", strip(text)))

\* int(x) of the float that text denotes
IntOfFloat(text) ==
    LET n == ParseNumber(text)
        magnitude == IF n.exp >= 0 THEN n.coeff * Pow10(n.exp)
                     ELSE n.coeff \div Pow10(0 - n.exp)
    IN CASE n.class = "inf" -> Raises("OverflowError")
         [] n.class \in {"nan", "invalid"} -> Raises("ValueError")
         [] OTHER -> Returns(Py("int", (IF n.neg /\ magnitude > 0 THEN <<"-">> ELSE <<>>)
                                       \o NatText(magnitude)))

_to_decimal(value) ==
    IF value.kind = "NoneType" THEN Returns(PyNone)
    ELSE IF value.kind \in {"bool", "int", "float", "Decimal"}
    THEN Decimal(value.text)
    ELSE IF value.kind = "str"
    THEN LET text == strip(value.text)
             bare == IF text # <<>> /\ text[1] = "$" THEN Tail(text) ELSE text
         IN IF text = <<>> THEN Returns(PyNone)
            ELSE IF Decimal(bare).raised = "InvalidOperation" THEN Returns(PyNone)
            ELSE Decimal(bare)
    ELSE Returns(PyNone)

_to_int(value) ==
    IF value.kind = "NoneType" THEN Returns(PyNone)
    ELSE IF value.kind \in {"bool", "int"} THEN Returns(value)
    ELSE IF value.kind = "float" THEN IntOfFloat(value.text)
    ELSE IF value.kind = "str"
    THEN LET text == strip(value.text)
         IN IF text = <<>> THEN Returns(PyNone)
            ELSE IF IntOfFloat(text).raised = "ValueError" THEN Returns(PyNone)
            ELSE IntOfFloat(text)
    ELSE Returns(PyNone)

NullTexts ==
    {<<":", "n", "u", "l", "l">>, <<"n", "u", "l", "l">>,
     <<"n", "/", "a">>, <<"n", "a">>}

_trim_text(value) ==
    IF value.kind = "NoneType" THEN Returns(PyNone)
    ELSE IF value.kind = "str"
    THEN LET trimmed == strip(value.text)
         IN IF trimmed = <<>> \/ lower(trimmed) \in NullTexts THEN Returns(PyNone)
            ELSE Returns(Py("str", trimmed))
    ELSE Returns(Py("str", value.text))

_to_jsonb(value) ==
    IF value.kind = "NoneType" THEN Returns(PyNone)
    ELSE IF value.kind \in {"dict", "list"} THEN Returns(Py("Jsonb", value.text))
    ELSE Returns(PyNone)

\* `not value` of Python: None, False, zero, the empty string or container
Falsy(value) ==
    \/ value.kind = "NoneType"
    \/ value.kind = "bool" /\ value.text = <<"F", "a", "l", "s", "e">>
    \/ value.kind \in {"int", "float", "Decimal"}
           /\ ParseNumber(value.text).class = "finite"
           /\ ParseNumber(value.text).coeff = 0
    \/ value.kind = "str" /\ value.text = <<>>
    \/ value.kind \in {"dict", "list"} /\ Len(value.text) = 2

DaysIn(year, month) ==
    IF month = 2
    THEN (IF year % 4 = 0 /\ (year % 100 # 0 \/ year % 400 = 0) THEN 29 ELSE 28)
    ELSE IF month \in {4, 6, 9, 11} THEN 30 ELSE 31

\* date.fromisoformat(s) accepts s: YYYY-MM-DD naming a day of the calendar
IsoDate(s) ==
    /\ Len(s) = 10
    /\ s[5] = "-" /\ s[8] = "-"
    /\ AllDigits(SubSeq(s, 1, 4)) /\ AllDigits(SubSeq(s, 6, 7))
    /\ AllDigits(SubSeq(s, 9, 10))
    /\ ToNat(SubSeq(s, 1, 4)) >= 1
    /\ ToNat(SubSeq(s, 6, 7)) \in 1..12
    /\ ToNat(SubSeq(s, 9, 10)) \in
           1..DaysIn(ToNat(SubSeq(s, 1, 4)), ToNat(SubSeq(s, 6, 7)))

\* HH, HH:MM or HH:MM:SS, with 3 or 6 fraction digits after the seconds
IsoTime(s) ==
    LET dot == IndexOf(s, {"."})
        hms == IF dot = 0 THEN s ELSE SubSeq(s, 1, dot - 1)
        frac == IF dot = 0 THEN <<>> ELSE SubSeq(s, dot + 1, Len(s))
        field(i) == SubSeq(hms, i, i + 1)
    IN /\ Len(hms) \in {2, 5, 8}
       /\ dot # 0 => (Len(hms) = 8 /\ Len(frac) \in {3, 6} /\ AllDigits(frac))
       /\ AllDigits(field(1)) /\ ToNat(field(1)) < 24
       /\ Len(hms) >= 5 =>
              (hms[3] = ":" /\ AllDigits(field(4)) /\ ToNat(field(4)) < 60)
       /\ Len(hms) = 8 =>
              (hms[6] = ":" /\ AllDigits(field(7)) /\ ToNat(field(7)) < 60)

\* datetime.fromisoformat(s) accepts s: a date, then optionally one
\* separator character, a time and a UTC offset +HH:MM or -HH:MM
IsoDateTime(s) ==
    /\ Len(s) >= 10
    /\ IsoDate(SubSeq(s, 1, 10))
    /\ Len(s) > 10 =>
           LET rest == SubSeq(s, 12, Len(s))
               sign == IndexOf(rest, {"+", "-"})
               time == IF sign = 0 THEN rest ELSE SubSeq(rest, 1, sign - 1)
               off == IF sign = 0 THEN <<>> ELSE SubSeq(rest, sign + 1, Len(rest))
           IN /\ IsoTime(time)
              /\ sign # 0 => (Len(off) = 5 /\ IsoTime(off))

_parse_date(value) ==
    IF Falsy(value) THEN Returns(<<PyNone, PyNone>>)
    ELSE IF value.kind \in {"date", "datetime"}
    THEN Returns(<<value, Py("str", value.text)>>)
    ELSE IF value.kind = "str"
    THEN LET trimmed == strip(value.text)
         IN IF trimmed = <<>> THEN Returns(<<PyNone, PyNone>>)
            ELSE IF IsoDate(trimmed)
            THEN Returns(<<Py("date", trimmed), Py("str", trimmed)>>)
            ELSE Returns(<<PyNone, Py("str", trimmed)>>)
    ELSE Returns(<<PyNone, PyNone>>)

_parse_timestamp(value) ==
    IF Falsy(value) THEN Returns(<<PyNone, PyNone>>)
    ELSE IF value.kind = "datetime"
    THEN Returns(<<value, Py("str", value.text)>>)
    ELSE IF value.kind = "str"
    THEN LET trimmed == strip(value.text)
             normalized == IF trimmed # <<>> /\ trimmed[Len(trimmed)] = "Z"
                           THEN SubSeq(trimmed, 1, Len(trimmed) - 1)
                                \o <<"+", "0", "0", ":", "0", "0">>
                           ELSE trimmed
         IN IF trimmed = <<>> THEN Returns(<<PyNone, PyNone>>)
            ELSE IF IsoDateTime(normalized)
            THEN Returns(<<Py("datetime", normalized), Py("str", trimmed)>>)
            ELSE IF IsoDate(trimmed)
            THEN Returns(<<Py("datetime", trimmed), Py("str", trimmed)>>)
            ELSE Returns(<<PyNone, Py("str", trimmed)>>)
    ELSE Returns(<<PyNone, PyNone>>)

\* str.replace(pat, "")
RECURSIVE RemoveAll(_, _)
RemoveAll(s, pat) ==
    IF Len(s) < Len(pat) THEN s
    ELSE IF SubSeq(s, 1, Len(pat)) = pat
    THEN RemoveAll(SubSeq(s, Len(pat) + 1, Len(s)), pat)
    ELSE <<s[1]>> \o RemoveAll(Tail(s), pat)

HexChars == {"a", "b", "c", "d", "e", "f"}

\* uuid.UUID(s) accepts s: 32 hex digits once urn:, uuid:, enclosing braces
\* and hyphens are taken out
IsUuid(s) ==
    LET bare == RemoveAll(RemoveAll(s, <<"u", "r", "n", ":">>),
                          <<"u", "u", "i", "d", ":">>)
        keep == {i \in DOMAIN bare : bare[i] \notin {"{", "}"}}
        inner == IF keep = {} THEN <<>> ELSE SubSeq(bare, MinOf(keep), MaxOf(keep))
        hex == RemoveAll(inner, <<"-">>)
    IN /\ Len(hex) = 32
       /\ \A i \in DOMAIN hex : IsDigit(hex[i]) \/ lower(<<hex[i]>>)[1] \in HexChars

_to_uuid(value) ==
    IF value.kind = "NoneType" THEN Returns(PyNone)
    ELSE IF value.kind = "UUID" THEN Returns(value)
    ELSE IF value.kind = "str"
    THEN (IF IsUuid(value.text) THEN Returns(Py("UUID", value.text))
          ELSE Returns(PyNone))
    ELSE Returns(PyNone)

\* the length of the match of -?\d+(?:\.\d+)? that starts at s[i], 0 when
\* there is none
MatchLength(s, i) ==
    LET start == IF s[i] = "-" THEN i + 1 ELSE i
        stops(from) == {j \in from..Len(s) : ~IsDigit(s[j])}
        endOf(from) == IF stops(from) = {} THEN Len(s) ELSE MinOf(stops(from)) - 1
        whole == IF start > Len(s) THEN start - 1 ELSE endOf(start)
        frac == IF whole + 2 <= Len(s) /\ s[whole + 1] = "." THEN endOf(whole + 2)
                ELSE whole
    IN IF whole < start THEN 0
       ELSE IF frac > whole + 1 THEN frac - i + 1
       ELSE whole - i + 1

\* _PERCENTAGE_PATTERN.findall(s): the matches from left to right, each
\* search starting after the match before it
RECURSIVE FindAll(_, _)
FindAll(s, i) ==
    IF i > Len(s) THEN <<>>
    ELSE IF MatchLength(s, i) = 0 THEN FindAll(s, i + 1)
    ELSE <<SubSeq(s, i, i + MatchLength(s, i) - 1)>>
         \o FindAll(s, i + MatchLength(s, i))

_parse_percentage_range(value) ==
    IF value.kind = "NoneType" THEN Returns(<<PyNone, PyNone>>)
    ELSE IF value.kind \in {"bool", "int", "float", "Decimal"}
    THEN (IF _to_decimal(value).raised # "" THEN _to_decimal(value)
          ELSE Returns(<<_to_decimal(value).val, _to_decimal(value).val>>))
    ELSE IF value.kind = "str"
    THEN LET trimmed == strip(value.text)
             matches == FindAll(trimmed, 1)
             num(k) == _to_decimal(Py("str", matches[k])).val
         IN IF trimmed = <<>> \/ matches = <<>> THEN Returns(<<PyNone, PyNone>>)
            ELSE IF Len(matches) = 1 THEN Returns(<<num(1), num(1)>>)
            ELSE Returns(<<num(1), num(2)>>)
    ELSE Returns(<<PyNone, PyNone>>)

\* ------------------------------------------------- date columns of the mappers
\* the date and timestamp fields each mapper reads, with the typed column
\* and the raw column ("" = none) it writes to the row
DateField(field, column, raw) == [field |-> field, column |-> column, raw |-> raw]

DateFields(extraction_type) ==
    CASE extraction_type = "invoice" ->
             {DateField("issueDate", "issue_date", "issue_date_raw"),
              DateField("dueDate", "due_date", "due_date_raw"),
              DateField("deliveryDate", "delivery_date", "delivery_date_raw")}
      [] extraction_type = "bol" ->
             {DateField("shipDate", "ship_date", "ship_date_raw"),
              DateField("deliveryDate", "delivery_date", "delivery_date_raw"),
              DateField("requestedDate", "requested_date", "requested_date_raw")}
      [] extraction_type = "purchase_order" ->
             {DateField("issueDate", "issue_date", ""),
              DateField("dueDate", "due_date", ""),
              DateField("shipDate", "ship_date", ""),
              DateField("requestedDate", "requested_date", ""),
              DateField("deliveryDate", "delivery_date", "")}
      [] extraction_type = "inspection" ->
             {DateField("inspectionDate", "inspection_date", "inspection_date_raw"),
              DateField("deliveryDate", "delivery_date", "delivery_date_raw")}
      [] extraction_type = "cold_storage_invoice" ->
             {DateField("InvoiceDate", "invoice_date", "invoice_date_raw"),
              DateField("DueDate", "due_date", "due_date_raw"),
              DateField("ActivityDate", "activity_date", "activity_date_raw")}
      [] OTHER ->
             {DateField("requested_datetime", "requested_at", "requested_at_raw"),
              DateField("started_datetime", "started_at", "started_at_raw"),
              DateField("completed_datetime", "completed_at", "completed_at_raw")}

ExtractionTypes ==
    {"invoice", "bol", "purchase_order", "inspection", "cold_storage_invoice",
     "usda_inspection"}

\* the columns a mapper fills from its date fields when each field of the
\* payload holds value: column name -> value handed to the INSERT
DateColumns(extraction_type, value) ==
    LET parsed == IF extraction_type = "usda_inspection"
                  THEN _parse_timestamp(value).val ELSE _parse_date(value).val
    IN {[column |-> f.column, val |-> parsed[1]] : f \in DateFields(extraction_type)}
       \cup {[column |-> f.raw, val |-> parsed[2]] :
                 f \in {g \in DateFields(extraction_type) : g.raw # ""}}

\* ------------------------------------------------------ loosely-typed values
\* one value of every class a payload field can hold
Values ==
    {PyNone,  \* None
     Py("str", <<>>),  \* the empty string
     Py("str", <<" ", " ">>),  \* blanks
     Py("bool", <<"T", "r", "u", "e">>),  \* True
     Py("bool", <<"F", "a", "l", "s", "e">>),  \* False
     Py("int", <<"7">>),  \* 7
     Py("int", <<"0">>),  \* 0
     Py("float", <<"1", ".", "5">>),  \* 1.5
     Py("float", <<"n", "a", "n">>),  \* float('nan')
     Py("float", <<"i", "n", "f">>),  \* float('inf')
     Py("Decimal", <<"2", ".", "5", "0">>),  \* Decimal('2.50')
     Py("str", <<"1", "2">>),  \* '12'
     Py("str", <<" ", "1", "2", ".", "5", " ">>),  \* ' 12.5 '
     Py("str", <<"$", "5">>),  \* '$5'
     Py("str", <<"1", "e", "3">>),  \* '1e3'
     Py("str", <<"i", "n", "f">>),  \* 'inf'
     Py("str", <<"N", "a", "N">>),  \* 'NaN'
     Py("str", <<"T", "r", "u", "e">>),  \* 'True'
     Py("str", <<"a", "b", "c">>),  \* 'abc'
     Py("str", <<"1", "2", "a", "b", "c">>),  \* '12abc'
     Py("str", <<"N", "/", "A">>),  \* 'N/A'
     Py("dict", <<"{", "}">>),  \* {}
     Py("list", <<"[", "1", "]">>),  \* [1]
     Py("date", <<"2", "0", "2", "4", "-", "0", "1", "-", "1", "5">>),
     Py("datetime", <<"2", "0", "2", "4", "-", "0", "1", "-", "1", "5", "T", "1", "0", ":", "3", "0", ":", "0", "0">>),
     Py("str", <<"2", "0", "2", "4", "-", "0", "1", "-", "1", "5">>),
     Py("str", <<" ", "2", "0", "2", "4", "-", "0", "2", "-", "2", "9", " ">>),
     Py("str", <<"2", "0", "2", "4", "-", "0", "2", "-", "3", "0">>),
     Py("str", <<"0", "1", "/", "1", "5", "/", "2", "0", "2", "4">>),
     Py("str", <<"2", "0", "2", "4", "-", "0", "1", "-", "1", "5", "T", "1", "0", ":", "3", "0", ":", "0", "0", "Z">>),
     Py("str", <<"2", "0", "2", "4", "-", "0", "1", "-", "1", "5", " ", "1", "0", ":", "3", "0">>),
     Py("str", <<"2", "0", "2", "4", "-", "0", "1", "-", "1", "5", "T", "2", "5", ":", "0", "0">>),
     Py("str", <<"3", "-", "5", "%">>),  \* '3-5%'
     Py("str", <<"3", " ", "t", "o", " ", "5", ".", "5", " ", "%">>),
     Py("str", <<"5", "%">>),  \* '5%'
     Py("str", <<"-", "2", "%">>),  \* '-2%'
     Py("str", <<"1", "2", "3", "4", "5", "6", "7", "8", "-", "1", "2", "3", "4", "-", "5", "6", "7", "8", "-", "1", "2", "3", "4", "-", "5", "6", "7", "8", "1", "2", "3", "4", "5", "6", "7", "8">>),
     Py("UUID", <<"1", "2", "3", "4", "5", "6", "7", "8", "-", "1", "2", "3", "4", "-", "5", "6", "7", "8", "-", "1", "2", "3", "4", "-", "5", "6", "7", "8", "1", "2", "3", "4", "5", "6", "7", "8">>)}

Normalizers ==
    {"_to_decimal", "_to_int", "_parse_date", "_parse_timestamp", "_trim_text",
     "_parse_percentage_range", "_to_jsonb", "_to_uuid"}

Call(fn, value) ==
    CASE fn = "_to_decimal" -> _to_decimal(value)
      [] fn = "_to_int" -> _to_int(value)
      [] fn = "_parse_date" -> _parse_date(value)
      [] fn = "_parse_timestamp" -> _parse_timestamp(value)
      [] fn = "_trim_text" -> _trim_text(value)
      [] fn = "_parse_percentage_range" -> _parse_percentage_range(value)
      [] fn = "_to_jsonb" -> _to_jsonb(value)
      [] OTHER -> _to_uuid(value)

NoProbe == [value |-> PyNone, fn |-> "", out |-> Returns(PyNone)]

\* --------------------------------------------------------------- inputs
\* one child entry of a payload: "ok" carries its identifying fields,
\* "bad" misses one of them (Item/Description, lot_id/product_name/...)
LineKinds == {"ok", "bad"}

\* a workflow result: classification.label, extraction.type and
\* extraction.data, where hdr = the identifying number of the header is
\* present (invoiceNumber, poNumber, InvoiceHeader.InvoiceNumber,
\* certificate_id/applicant/inspection_site) and lines = the child array
Result(label, type, hdr, lines) ==
    [label |-> label, type |-> type, payload |-> [hdr |-> hdr, lines |-> lines]]

\* results with at most MaxLines child entries
Fits(results) == {w \in results : Len(w.payload.lines) <= MaxLines}

\* the results handed to insert_extraction_result: every extraction type,
\* valid and invalid headers and entries, raw label forms, missing fields
StoreResults ==
    Fits({Result(" Invoice ", "invoice", TRUE, <<"ok", "bad">>),
          Result("PURCHASE_ORDER", "purchase_order", FALSE, <<"ok">>),
          Result("receipt", "bol", TRUE, <<>>),
          Result("receipt", "inspection", TRUE, <<"bad">>),
          Result(" Invoice ", "cold_storage_invoice", TRUE, <<"ok", "ok">>),
          Result(" Invoice ", "cold_storage_invoice", TRUE, <<"ok", "bad">>),
          Result(" Invoice ", "cold_storage_invoice", TRUE, <<"ok", "ok", "bad">>),
          Result(" Invoice ", "cold_storage_invoice", FALSE, <<"ok">>),
          Result("receipt", "usda_inspection", TRUE, <<"ok">>),
          Result("receipt", "usda_inspection", TRUE, <<"bad", "ok">>),
          Result("receipt", "usda_inspection", FALSE, <<>>),
          Result("receipt", "fallback", FALSE, <<>>),
          Result("receipt", "memo", TRUE, <<>>),
          Result("", "invoice", TRUE, <<>>),
          Result(" Invoice ", "", TRUE, <<>>)})

\* what the statement that writes document_data does
SnapshotOutcomes == {"ok", "client_error", "server_error"}

\* ---------------------------------------------------------------- state
VARIABLES
    documents,         \* openai.documents: id -> row
    parents,           \* parent extraction rows of the six parent tables
    children,          \* child rows, foreign-keyed to a parent row id
    bundles,           \* openai.bundles: id -> row
    bundle_documents,  \* openai.bundle_documents join rows
    nextDocId,         \* next documents.id the store generates
    nextRowId,         \* next parent row id the store generates
    nextBundleId,      \* next bundles.id the store generates
    ctx,               \* the caller's InsertContext
    now,               \* now() of the last committed bundle transaction
    last,              \* outcome of the last call, as the caller sees it
    tx,                \* the open transactions of concurrently running calls
    probe              \* a loosely-typed value and what a normalizer made of it

vars == <<documents, parents, children, bundles, bundle_documents,
          nextDocId, nextRowId, nextBundleId, ctx, now, last, tx, probe>>

\* the tables as one value: what a transaction reads and writes
Store ==
    [documents |-> documents, parents |-> parents, children |-> children,
     bundles |-> bundles, bundle_documents |-> bundle_documents,
     nextDocId |-> nextDocId, nextRowId |-> nextRowId,
     nextBundleId |-> nextBundleId]

\* psycopg.connect(...) + conn.cursor(): a transaction over the tables.
\* err: the Python exception raised so far ("" = none); aborted: a statement
\* failed on the server and the exception was swallowed, so the transaction
\* is in the failed state and COMMIT ends it as a rollback.
Begin(store) == [db |-> store, err |-> "", aborted |-> FALSE]

Raise(t, e) == IF t.err = "" THEN [t EXCEPT !.err = e] ELSE t

\* ------------------------------------------------------- document registry
\* INSERT INTO openai.documents ... RETURNING id
InsertDocumentRow(t, org, label) ==
    LET id == t.db.nextDocId
        row == [org_id |-> org, classification_label |-> label,
                status |-> DefaultStatus, assigned_bundles |-> <<>>,
                document_data |-> FALSE, deleted |-> FALSE]
    IN [t EXCEPT !.db.documents = [d \in DOMAIN t.db.documents \cup {id} |->
                                      IF d = id THEN row ELSE t.db.documents[d]],
                 !.db.nextDocId = id + 1]

\* the registry without its early return on a context that carries an id
InsertDocumentAlways(t, label, c) ==
    IF c.org_id = None
    THEN [t |-> Raise(t, "org_required"), ctx |-> c, id |-> None]
    ELSE [t |-> InsertDocumentRow(t, c.org_id, _normalize_document_label(label)),
          ctx |-> [c EXCEPT !.document_id = t.db.nextDocId],
          id |-> t.db.nextDocId]

\* returns the transaction, the mutated context and the document id
_insert_or_get_document(t, label, c) ==
    IF c.document_id # None
    THEN [t |-> t, ctx |-> c, id |-> c.document_id]
    ELSE IF c.org_id = None
    THEN [t |-> Raise(t, "org_required"), ctx |-> c, id |-> None]
    ELSE [t |-> InsertDocumentRow(t, c.org_id, _normalize_document_label(label)),
          ctx |-> [c EXCEPT !.document_id = t.db.nextDocId],
          id |-> t.db.nextDocId]

\* UPDATE openai.documents SET status = %s WHERE id = %s
_set_document_status(t, document_id, status) ==
    IF t.err # "" THEN t
    ELSE IF ~_ensure_document_status(status) THEN Raise(t, "invalid_status")
    ELSE IF document_id \in DOMAIN t.db.documents
    THEN [t EXCEPT !.db.documents[document_id].status = status]
    ELSE t

\* ------------------------------------------------------ type-specific mappers
_require_document_id(t, c) ==
    IF c.document_id = None THEN Raise(t, "document_id_unset") ELSE t

\* the document_id foreign key of the parent tables
DocumentForeignKey(t, document_id) == document_id \in DOMAIN t.db.documents

\* _insert_and_return on a parent table: INSERT ... RETURNING id
InsertParentRow(t, table, document_id, number) ==
    IF t.err # "" THEN t
    ELSE IF ~DocumentForeignKey(t, document_id) THEN Raise(t, "foreign_key")
    ELSE [t EXCEPT !.db.parents = @ \cup {[id |-> t.db.nextRowId, table |-> table,
                                           document_id |-> document_id,
                                           number |-> number]},
                   !.db.nextRowId = @ + 1]

\* the loop over a child array, in source order; a strict mapper raises on
\* the first entry that misses a required field, after the earlier inserts
RECURSIVE InsertChildRows(_, _, _, _, _, _)
InsertChildRows(t, table, parent_id, lines, i, strict) ==
    IF t.err # "" \/ i > Len(lines) THEN t
    ELSE IF strict /\ lines[i] = "bad" THEN Raise(t, "validation")
    ELSE InsertChildRows(
             [t EXCEPT !.db.children = @ \cup {[parent_id |-> parent_id, table |-> table,
                                                line_number |-> i]}],
             table, parent_id, lines, i + 1, strict)

Number(payload) == IF payload.hdr THEN 1 ELSE None

_insert_invoice(t, payload, c) ==
    LET t1 == InsertParentRow(_require_document_id(t, c), "invoices",
                              c.document_id, Number(payload))
    IN InsertChildRows(t1, "invoice_line_items", t.db.nextRowId, payload.lines, 1, FALSE)

_insert_bol(t, payload, c) ==
    LET t1 == InsertParentRow(_require_document_id(t, c), "bols",
                              c.document_id, Number(payload))
    IN InsertChildRows(t1, "bol_items", t.db.nextRowId, payload.lines, 1, FALSE)

_insert_purchase_order(t, payload, c) ==
    LET t1 == InsertParentRow(_require_document_id(t, c), "purchase_orders",
                              c.document_id, Number(payload))
    IN InsertChildRows(t1, "purchase_order_line_items", t.db.nextRowId,
                       payload.lines, 1, FALSE)

_insert_inspection(t, payload, c) ==
    LET t1 == InsertParentRow(_require_document_id(t, c), "inspections",
                              c.document_id, Number(payload))
    IN InsertChildRows(t1, "inspection_samples", t.db.nextRowId, payload.lines, 1, FALSE)

_insert_cold_storage_invoice(t, payload, c) ==
    LET t0 == _require_document_id(t, c)
        t1 == IF ~payload.hdr THEN Raise(t0, "validation")
              ELSE InsertParentRow(t0, "cold_storage_invoices",
                                   c.document_id, Number(payload))
    IN InsertChildRows(t1, "cold_storage_invoice_items", t.db.nextRowId,
                       payload.lines, 1, TRUE)

_insert_usda_inspection(t, payload, c) ==
    LET t0 == _require_document_id(t, c)
        t1 == IF ~payload.hdr THEN Raise(t0, "validation")
              ELSE InsertParentRow(t0, "usda_inspections",
                                   c.document_id, Number(payload))
    IN InsertChildRows(t1, "usda_inspection_lots", t.db.nextRowId,
                       payload.lines, 1, TRUE)

ParentTables == {"invoices", "bols", "purchase_orders", "inspections",
                 "cold_storage_invoices", "usda_inspections"}

\* the if/elif chain on extraction_type
Dispatch(t, extraction_type, payload, c, document_id) ==
    IF t.err # "" THEN t
    ELSE CASE extraction_type = "invoice" -> _insert_invoice(t, payload, c)
           [] extraction_type = "bol" -> _insert_bol(t, payload, c)
           [] extraction_type = "purchase_order" -> _insert_purchase_order(t, payload, c)
           [] extraction_type = "inspection" -> _insert_inspection(t, payload, c)
           [] extraction_type = "cold_storage_invoice" ->
                  _insert_cold_storage_invoice(t, payload, c)
           [] extraction_type = "usda_inspection" -> _insert_usda_inspection(t, payload, c)
           [] extraction_type = "fallback" -> _set_document_status(t, document_id, "failed")
           [] OTHER -> Raise(t, "unsupported_type")

\* the try/except around UPDATE openai.documents SET document_data = ...
WriteSnapshot(t, document_id, outcome) ==
    IF t.err # "" THEN t
    ELSE CASE outcome = "ok" ->
                  IF document_id \in DOMAIN t.db.documents
                  THEN [t EXCEPT !.db.documents[document_id].document_data = TRUE]
                  ELSE t
           [] outcome = "client_error" -> t
           [] OTHER -> [t EXCEPT !.aborted = TRUE]

\* insert_extraction_result without its tests for the fallback type around
\* the status updates
InsertRunUnguarded(store, label, extraction_type, payload, snap, c) ==
    LET r == _insert_or_get_document(Begin(store), label, c)
        c1 == r.ctx
        t1 == _set_document_status(r.t, r.id, "extracted")
        t2 == Dispatch(t1, extraction_type, payload, c1, r.id)
        t3 == _set_document_status(t2, r.id, "stored")
        t4 == WriteSnapshot(t3, r.id, snap)
    IN [t |-> t4, ctx |-> c1, id |-> r.id]

\* the statements of insert_extraction_result inside the connection block
InsertRun(store, label, extraction_type, payload, snap, c) ==
    LET r == _insert_or_get_document(Begin(store), label, c)
        c1 == r.ctx
        t1 == IF extraction_type # "fallback"
              THEN _set_document_status(r.t, r.id, "extracted") ELSE r.t
        t2 == Dispatch(t1, extraction_type, payload, c1, r.id)
        t3 == IF extraction_type # "fallback"
              THEN _set_document_status(t2, r.id, "stored") ELSE t2
        t4 == WriteSnapshot(t3, r.id, snap)
    IN [t |-> t4, ctx |-> c1, id |-> r.id]

\* an autocommit connection: every statement that ran stays
FinishAutocommit(store, t) == t.db

\* leaving the connection block: conn.commit() after a clean run, rollback
\* when an exception propagates; ids the store generated are never reused
Finish(store, t) ==
    IF t.err # "" \/ t.aborted
    THEN [store EXCEPT !.nextDocId = t.db.nextDocId]
    ELSE t.db

\* ----------------------------------------------------------- bundle manager
Range(seq) == {seq[i] : i \in DOMAIN seq}

\* select ... from openai.documents where id = %s; raises when there is no row
_get_document_row(t, document_id) ==
    IF t.err # "" THEN t
    ELSE IF document_id \notin DOMAIN t.db.documents THEN Raise(t, "document_not_found")
    ELSE t

ParentRows(t, table, document_id) ==
    {p \in t.db.parents : p.table = table /\ p.document_id = document_id}

\* the values fetchone() can return for po_number (one row, in no stated order)
_get_po_number(t, document_id) ==
    LET rows == ParentRows(t, "purchase_orders", document_id)
    IN IF rows = {} THEN {None} ELSE {p.number : p \in rows}

\* invoice_number of an invoices row when it has one, else of a
\* cold_storage_invoices row
_get_invoice_number(t, document_id) ==
    LET inv == ParentRows(t, "invoices", document_id)
        cold == ParentRows(t, "cold_storage_invoices", document_id)
        fromCold == IF cold = {} THEN {None} ELSE {p.number : p \in cold}
    IN {p.number : p \in {q \in inv : q.number # None}}
       \cup (IF inv = {} \/ \E q \in inv : q.number = None THEN fromCold ELSE {})

\* the pairs <<key_po, key_invoice>> the lookups can produce
_build_bundle_key_fields(t, document_id, doc_type) ==
    IF doc_type = "purchase_order"
    THEN {<<po, None>> : po \in _get_po_number(t, document_id)}
    ELSE IF doc_type \in {"invoice", "cold_storage_invoice"}
    THEN {<<None, inv>> : inv \in _get_invoice_number(t, document_id)}
    ELSE {<<None, None>>}

\* document_data when present, else the minimal {document_id, type} dict
_get_document_snapshot(t, document_id) ==
    [document_id |-> document_id,
     from_data |-> t.db.documents[document_id].document_data]

\* _update_document_assigned_bundles without its test that the id is new
UpdateAssignedUnchecked(t, document_id, add_bundle_id, remove_bundle_id) ==
    IF t.err # "" THEN t
    ELSE IF document_id \notin DOMAIN t.db.documents THEN Raise(t, "document_not_found")
    ELSE LET bundle_ids == t.db.documents[document_id].assigned_bundles
             added == IF add_bundle_id # None
                      THEN Append(bundle_ids, add_bundle_id) ELSE bundle_ids
             kept == IF remove_bundle_id # None
                     THEN SelectSeq(added, LAMBDA b : b # remove_bundle_id) ELSE added
         IN [t EXCEPT !.db.documents[document_id].assigned_bundles = kept]

_update_document_assigned_bundles(t, document_id, add_bundle_id, remove_bundle_id) ==
    IF t.err # "" THEN t
    ELSE IF document_id \notin DOMAIN t.db.documents THEN Raise(t, "document_not_found")
    ELSE LET bundle_ids == t.db.documents[document_id].assigned_bundles
             added == IF add_bundle_id # None /\ add_bundle_id \notin Range(bundle_ids)
                      THEN Append(bundle_ids, add_bundle_id) ELSE bundle_ids
             kept == IF remove_bundle_id # None
                     THEN SelectSeq(added, LAMBDA b : b # remove_bundle_id) ELSE added
         IN [t EXCEPT !.db.documents[document_id].assigned_bundles = kept]

\* _append_bundle_snapshot without its filter on document_id
AppendSnapshotUnfiltered(t, bundle_id, doc_snapshot, tnow) ==
    IF t.err # "" THEN t
    ELSE IF bundle_id \notin DOMAIN t.db.bundles THEN Raise(t, "bundle_not_found")
    ELSE [t EXCEPT !.db.bundles[bundle_id].documents_snapshot =
                       Append(@, doc_snapshot),
                   !.db.bundles[bundle_id].updated_at = tnow]

_append_bundle_snapshot(t, bundle_id, doc_snapshot, tnow) ==
    IF t.err # "" THEN t
    ELSE IF bundle_id \notin DOMAIN t.db.bundles THEN Raise(t, "bundle_not_found")
    ELSE LET arr == t.db.bundles[bundle_id].documents_snapshot
             filtered == SelectSeq(arr, LAMBDA x : x.document_id # doc_snapshot.document_id)
         IN [t EXCEPT !.db.bundles[bundle_id].documents_snapshot =
                          Append(filtered, doc_snapshot),
                      !.db.bundles[bundle_id].updated_at = tnow]

\* the filter of _remove_bundle_snapshot with its test inverted
RemoveSnapshotInverted(t, bundle_id, document_id, tnow) ==
    IF t.err # "" THEN t
    ELSE IF bundle_id \notin DOMAIN t.db.bundles THEN t
    ELSE LET arr == t.db.bundles[bundle_id].documents_snapshot
             filtered == SelectSeq(arr, LAMBDA x : x.document_id = document_id)
         IN [t EXCEPT !.db.bundles[bundle_id].documents_snapshot = filtered,
                      !.db.bundles[bundle_id].updated_at = tnow]

_remove_bundle_snapshot(t, bundle_id, document_id, tnow) ==
    IF t.err # "" THEN t
    ELSE IF bundle_id \notin DOMAIN t.db.bundles THEN t
    ELSE LET arr == t.db.bundles[bundle_id].documents_snapshot
             filtered == SelectSeq(arr, LAMBDA x : x.document_id # document_id)
         IN [t EXCEPT !.db.bundles[bundle_id].documents_snapshot = filtered,
                      !.db.bundles[bundle_id].updated_at = tnow]

\* insert into openai.bundle_documents ... on conflict do nothing
InsertJoinRow(t, bundle_id, document_id, doc_type) ==
    IF t.err # "" THEN t
    ELSE IF \E j \in t.db.bundle_documents :
                j.bundle_id = bundle_id /\ j.document_id = document_id
    THEN t
    ELSE [t EXCEPT !.db.bundle_documents =
                       @ \cup {[bundle_id |-> bundle_id, document_id |-> document_id,
                                doc_type |-> doc_type]}]

\* _insert_and_return(cur, "openai.bundles", ...)
InsertBundleRow(t, org_id, document_id, keys, tnow) ==
    LET id == t.db.nextBundleId
        row == [org_id |-> org_id, primary_document_id |-> document_id,
                key_po_number |-> keys[1], key_invoice_number |-> keys[2],
                documents_snapshot |-> <<>>, created_at |-> tnow, updated_at |-> tnow]
    IN [t EXCEPT !.db.bundles = [b \in DOMAIN t.db.bundles \cup {id} |->
                                    IF b = id THEN row ELSE t.db.bundles[b]],
                 !.db.nextBundleId = id + 1]

\* create_bundle_for_document without its test of the key numbers
CreateRunAnyKeys(store, document_id, org_id, keys, tnow) ==
    LET t0 == _get_document_row(Begin(store), document_id)
    IN IF t0.err # "" THEN t0
       ELSE LET doc == t0.db.documents[document_id]
                doc_type == _normalize_document_label(doc.classification_label)
            IN IF doc.org_id # org_id THEN Raise(t0, "org_mismatch")
               ELSE IF doc_type \notin {"purchase_order", "invoice", "cold_storage_invoice"}
               THEN Raise(t0, "doc_type")
               ELSE LET bundle_id == t0.db.nextBundleId
                        t1 == InsertBundleRow(t0, org_id, document_id, keys, tnow)
                        doc_snapshot == _get_document_snapshot(t1, document_id)
                        t2 == InsertJoinRow(t1, bundle_id, document_id, doc_type)
                        t3 == _update_document_assigned_bundles(t2, document_id,
                                                                bundle_id, None)
                    IN _append_bundle_snapshot(t3, bundle_id, doc_snapshot, tnow)

\* create_bundle_for_document without its tests of the classification label
\* and of the key numbers
CreateRunUnchecked(store, document_id, org_id, keys, tnow) ==
    LET t0 == _get_document_row(Begin(store), document_id)
    IN IF t0.err # "" THEN t0
       ELSE LET doc == t0.db.documents[document_id]
                doc_type == _normalize_document_label(doc.classification_label)
            IN IF doc.org_id # org_id THEN Raise(t0, "org_mismatch")
               ELSE LET bundle_id == t0.db.nextBundleId
                        t1 == InsertBundleRow(t0, org_id, document_id, keys, tnow)
                        doc_snapshot == _get_document_snapshot(t1, document_id)
                        t2 == InsertJoinRow(t1, bundle_id, document_id, doc_type)
                        t3 == _update_document_assigned_bundles(t2, document_id,
                                                                bundle_id, None)
                    IN _append_bundle_snapshot(t3, bundle_id, doc_snapshot, tnow)

\* create_bundle_for_document without its comparison of the org ids
CreateRunAnyOrg(store, document_id, org_id, keys, tnow) ==
    LET t0 == _get_document_row(Begin(store), document_id)
    IN IF t0.err # "" THEN t0
       ELSE LET doc == t0.db.documents[document_id]
                doc_type == _normalize_document_label(doc.classification_label)
            IN IF doc_type \notin {"purchase_order", "invoice", "cold_storage_invoice"}
               THEN Raise(t0, "doc_type")
               ELSE IF keys[1] = None /\ keys[2] = None THEN Raise(t0, "missing_keys")
               ELSE LET bundle_id == t0.db.nextBundleId
                        t1 == InsertBundleRow(t0, org_id, document_id, keys, tnow)
                        doc_snapshot == _get_document_snapshot(t1, document_id)
                        t2 == InsertJoinRow(t1, bundle_id, document_id, doc_type)
                        t3 == _update_document_assigned_bundles(t2, document_id,
                                                                bundle_id, None)
                    IN _append_bundle_snapshot(t3, bundle_id, doc_snapshot, tnow)

\* the statements of create_bundle_for_document; keys is the result the
\* key-field lookups produced
CreateRun(store, document_id, org_id, keys, tnow) ==
    LET t0 == _get_document_row(Begin(store), document_id)
    IN IF t0.err # "" THEN t0
       ELSE LET doc == t0.db.documents[document_id]
                doc_type == _normalize_document_label(doc.classification_label)
            IN IF doc.org_id # org_id THEN Raise(t0, "org_mismatch")
               ELSE IF doc_type \notin {"purchase_order", "invoice", "cold_storage_invoice"}
               THEN Raise(t0, "doc_type")
               ELSE IF keys[1] = None /\ keys[2] = None THEN Raise(t0, "missing_keys")
               ELSE LET bundle_id == t0.db.nextBundleId
                        t1 == InsertBundleRow(t0, org_id, document_id, keys, tnow)
                        doc_snapshot == _get_document_snapshot(t1, document_id)
                        t2 == InsertJoinRow(t1, bundle_id, document_id, doc_type)
                        t3 == _update_document_assigned_bundles(t2, document_id,
                                                                bundle_id, None)
                    IN _append_bundle_snapshot(t3, bundle_id, doc_snapshot, tnow)

\* the app-layer single-bundle check for purchase_order and invoice documents
MembershipConflict(t, document_id, doc_type) ==
    /\ doc_type \in {"purchase_order", "invoice"}
    /\ \E j \in t.db.bundle_documents : j.document_id = document_id

\* add_document_to_bundle without its comparison of the org ids
AddRunAnyOrg(store, bundle_id, document_id, tnow) ==
    LET t0 == Begin(store)
    IN IF bundle_id \notin DOMAIN t0.db.bundles THEN Raise(t0, "bundle_not_found")
       ELSE LET t1 == _get_document_row(t0, document_id)
            IN IF t1.err # "" THEN t1
               ELSE LET doc == t1.db.documents[document_id]
                        doc_type == _normalize_document_label(doc.classification_label)
                    IN IF MembershipConflict(t1, document_id, doc_type)
                       THEN Raise(t1, "membership_conflict")
                       ELSE LET doc_snapshot == _get_document_snapshot(t1, document_id)
                                t2 == InsertJoinRow(t1, bundle_id, document_id, doc_type)
                                t3 == _update_document_assigned_bundles(
                                          t2, document_id, bundle_id, None)
                            IN _append_bundle_snapshot(t3, bundle_id, doc_snapshot, tnow)

\* the statements of add_document_to_bundle
AddRun(store, bundle_id, document_id, tnow) ==
    LET t0 == Begin(store)
    IN IF bundle_id \notin DOMAIN t0.db.bundles THEN Raise(t0, "bundle_not_found")
       ELSE LET t1 == _get_document_row(t0, document_id)
            IN IF t1.err # "" THEN t1
               ELSE LET doc == t1.db.documents[document_id]
                        doc_type == _normalize_document_label(doc.classification_label)
                    IN IF doc.org_id # t1.db.bundles[bundle_id].org_id
                       THEN Raise(t1, "org_mismatch")
                       ELSE IF MembershipConflict(t1, document_id, doc_type)
                       THEN Raise(t1, "membership_conflict")
                       ELSE LET doc_snapshot == _get_document_snapshot(t1, document_id)
                                t2 == InsertJoinRow(t1, bundle_id, document_id, doc_type)
                                t3 == _update_document_assigned_bundles(
                                          t2, document_id, bundle_id, None)
                            IN _append_bundle_snapshot(t3, bundle_id, doc_snapshot, tnow)

\* delete from openai.bundle_documents where bundle_id = %s and document_id = %s
DeleteJoinRow(t, bundle_id, document_id) ==
    [t EXCEPT !.db.bundle_documents =
         {j \in @ : ~(j.bundle_id = bundle_id /\ j.document_id = document_id)}]

\* the tail of remove_document_from_bundle without the delete branch
TouchOnly(t, bundle_id, tnow) ==
    IF t.err # "" THEN t
    ELSE IF bundle_id \in DOMAIN t.db.bundles
    THEN [t EXCEPT !.db.bundles[bundle_id].updated_at = tnow]
    ELSE t

\* the tail of remove_document_from_bundle: delete the emptied bundle row,
\* else touch updated_at
CleanupOrTouch(t, bundle_id, tnow) ==
    IF t.err # "" THEN t
    ELSE LET remaining == Cardinality({j \in t.db.bundle_documents :
                                           j.bundle_id = bundle_id})
         IN IF remaining = 0
            THEN [t EXCEPT !.db.bundles =
                      [b \in DOMAIN t.db.bundles \ {bundle_id} |-> t.db.bundles[b]]]
            ELSE IF bundle_id \in DOMAIN t.db.bundles
            THEN [t EXCEPT !.db.bundles[bundle_id].updated_at = tnow]
            ELSE t

\* the statements of remove_document_from_bundle
RemoveRun(store, bundle_id, document_id, tnow) ==
    LET t1 == DeleteJoinRow(Begin(store), bundle_id, document_id)
        t2 == _update_document_assigned_bundles(t1, document_id, None, bundle_id)
        t3 == _remove_bundle_snapshot(t2, bundle_id, document_id, tnow)
    IN CleanupOrTouch(t3, bundle_id, tnow)

\* select openai.soft_delete_document(%s), on an autocommit connection
SoftDeleteRun(store, document_id) ==
    IF document_id \in DOMAIN store.documents
    THEN [store EXCEPT !.documents[document_id].status = "soft_deleted",
                       !.documents[document_id].deleted = TRUE]
    ELSE store

\* the Python class of the exception a call raised ("" = it returned)
ExceptionType(err) ==
    CASE err = "" -> ""
      [] err = "foreign_key" -> "psycopg.Error"
      [] OTHER -> "ValueError"

\* the HTTP status web_server.api_add_to_bundle answers with
api_add_to_bundle(err) ==
    CASE ExceptionType(err) = "" -> 200
      [] ExceptionType(err) = "ValueError" -> 409
      [] OTHER -> 500

\* the listing without its test of deleted_at
ListWithDeleted(org_id) ==
    {[id |-> d,
      label |-> _normalize_document_label(documents[d].classification_label)] :
        d \in {e \in DOMAIN documents :
                   /\ documents[e].org_id = org_id
                   /\ Len(documents[e].assigned_bundles) = 0}}

\* list_unassigned_documents(org_id): the rows of the select and the label
\* each is returned with
list_unassigned_documents(org_id) ==
    {[id |-> d,
      label |-> _normalize_document_label(documents[d].classification_label)] :
        d \in {e \in DOMAIN documents :
                   /\ documents[e].org_id = org_id
                   /\ Len(documents[e].assigned_bundles) = 0
                   /\ ~documents[e].deleted}}

\* ------------------------------------------------------------- operations
Apply(store) ==
    /\ documents' = store.documents
    /\ parents' = store.parents
    /\ children' = store.children
    /\ bundles' = store.bundles
    /\ bundle_documents' = store.bundle_documents
    /\ nextDocId' = store.nextDocId
    /\ nextRowId' = store.nextRowId
    /\ nextBundleId' = store.nextBundleId

Outcome(op, err, doc, bundle) ==
    [op |-> op, err |-> err, doc |-> doc, bundle |-> bundle, reused |-> FALSE,
     written |-> 0, snap |-> "", parent |-> None, type |-> ""]

\* join rows a bundle transaction inserted or deleted before it ended
JoinRowsChanged(t) ==
    Cardinality(t.db.bundle_documents \ bundle_documents)
    + Cardinality(bundle_documents \ t.db.bundle_documents)

\* a caller builds a fresh InsertContext(org_id=...)
NewContext(org) ==
    /\ ctx' = [org_id |-> org, document_id |-> None]
    /\ last' = Outcome("new_context", "", None, None)
    /\ UNCHANGED <<documents, parents, children, bundles, bundle_documents,
                   nextDocId, nextRowId, nextBundleId, now, tx, probe>>

\* insert_extraction_result(workflow_result, ctx) raising before it connects
InsertRejected(label, extraction_type) ==
    /\ extraction_type = "" \/ label = ""
    /\ last' = [Outcome("insert", IF extraction_type = "" THEN "missing_type"
                                  ELSE "missing_label", None, None)
                    EXCEPT !.reused = ctx.document_id # None, !.type = extraction_type]
    /\ UNCHANGED <<documents, parents, children, bundles, bundle_documents,
                   nextDocId, nextRowId, nextBundleId, ctx, now, tx, probe>>

\* one insert_extraction_result call that got past its argument checks:
\* the tables and the outcome after it, given the context it was handed
\* (snap is recorded when the snapshot statement was reached)
InsertCall(c, label, extraction_type, payload, snap) ==
    LET run == InsertRun(Store, label, extraction_type, payload, snap, c)
        t == run.t
    IN /\ Apply(Finish(Store, t))
       /\ last' = [op |-> "insert", err |-> t.err, doc |-> run.id, bundle |-> None,
                   reused |-> c.document_id # None,
                   written |-> Cardinality(t.db.parents \ parents)
                               + Cardinality(t.db.children \ children),
                   snap |-> IF t.err = "" THEN snap ELSE "",
                   parent |-> IF t.err = "" /\ t.db.nextRowId # nextRowId
                              THEN nextRowId ELSE None,
                   type |-> extraction_type]

\* insert_extraction_result(workflow_result, ctx) on the caller's context,
\* which the call mutates in place
InsertExtractionResult(label, extraction_type, payload, snap) ==
    /\ ctx.document_id = None => nextDocId <= MaxStoreDocs
    /\ Cardinality(parents) < MaxParents
    /\ extraction_type # "" /\ label # ""
    /\ InsertCall(ctx, label, extraction_type, payload, snap)
    /\ ctx' = InsertRun(Store, label, extraction_type, payload, snap, ctx).ctx
    /\ UNCHANGED <<now, tx, probe>>

\* web_server.upload_run / store_run._run: one call on a context built for it
UploadRun(org, label, extraction_type, payload, snap) ==
    /\ nextDocId <= MaxDocs
    /\ extraction_type # "" /\ label # ""
    /\ InsertCall([org_id |-> org, document_id |-> None],
                  label, extraction_type, payload, snap)
    /\ UNCHANGED <<ctx, now, tx, probe>>

\* create_bundle_for_document(document_id, org_id)
CreateBundleForDocument(document_id, org_id) ==
    /\ now < MaxClock
    /\ nextBundleId <= MaxBundles
    /\ \E keys \in (IF document_id \in DOMAIN documents
                    THEN _build_bundle_key_fields(
                             Begin(Store), document_id,
                             _normalize_document_label(
                                 documents[document_id].classification_label))
                    ELSE {<<None, None>>}) :
          LET t == CreateRun(Store, document_id, org_id, keys, now + 1)
          IN /\ Apply(Finish(Store, t))
             /\ last' = [Outcome("create", t.err, document_id,
                                 IF t.err = "" THEN nextBundleId ELSE None)
                             EXCEPT !.written = JoinRowsChanged(t)]
             /\ now' = IF t.err = "" THEN now + 1 ELSE now
    /\ UNCHANGED <<ctx, tx, probe>>

\* add_document_to_bundle(bundle_id, document_id)
AddDocumentToBundle(bundle_id, document_id) ==
    /\ now < MaxClock
    /\ LET t == AddRun(Store, bundle_id, document_id, now + 1)
       IN /\ Apply(Finish(Store, t))
          /\ last' = [Outcome("add", t.err, document_id, bundle_id)
                          EXCEPT !.written = JoinRowsChanged(t)]
          /\ now' = IF t.err = "" THEN now + 1 ELSE now
    /\ UNCHANGED <<ctx, tx, probe>>

\* remove_document_from_bundle(bundle_id, document_id)
RemoveDocumentFromBundle(bundle_id, document_id) ==
    /\ now < MaxClock
    /\ LET t == RemoveRun(Store, bundle_id, document_id, now + 1)
       IN /\ Apply(Finish(Store, t))
          /\ last' = [Outcome("remove", t.err, document_id, bundle_id)
                          EXCEPT !.written = JoinRowsChanged(t)]
          /\ now' = IF t.err = "" THEN now + 1 ELSE now
    /\ UNCHANGED <<ctx, tx, probe>>

\* a soft delete that also deletes the join rows of the document
SoftDeleteCascading(document_id) ==
    /\ Apply([SoftDeleteRun(Store, document_id) EXCEPT
                  !.bundle_documents = {j \in @ : j.document_id # document_id}])
    /\ last' = Outcome("soft_delete", "", document_id, None)
    /\ UNCHANGED <<ctx, now, tx, probe>>

\* soft_delete_document(document_id)
SoftDeleteDocument(document_id) ==
    /\ Apply(SoftDeleteRun(Store, document_id))
    /\ last' = Outcome("soft_delete", "", document_id, None)
    /\ UNCHANGED <<ctx, now, tx, probe>>

\* ------------------------------------------------------- concurrent calls
\* Calls that run at the same time: each is one transaction on its own
\* connection at the store's default isolation level (read committed).  A
\* statement reads the committed tables plus the writes of its own
\* transaction; a write waits while another open transaction holds the row.
Procs == {1, 2}

\* a call that has not started; assigned and snapshot hold the value the
\* transaction wrote (<<>> = no write), bundle_org, doc_type, doc_snapshot,
\* bundle_ids, arr and remaining are the Python locals of the call
\* and overlapped tells that another call was open while this one was
Idle ==
    [pc |-> "idle", op |-> "", bundle |-> None, doc |-> None, err |-> "",
     before |-> {}, bundle_org |-> None, doc_type |-> "", doc_snapshot |-> <<>>, bundle_ids |-> <<>>,
     arr |-> <<>>, remaining |-> 0, join_added |-> {}, join_deleted |-> {},
     assigned |-> <<>>, snapshot |-> <<>>, touched |-> FALSE,
     bundle_deleted |-> FALSE, tnow |-> 0, overlapped |-> FALSE]

NoTx == [p \in Procs |-> Idle]

Active(q) == tx[q].pc \notin {"idle", "done"}

\* the tables as the statements of transaction p see them
View(p) ==
    LET x == tx[p]
        docs == IF x.assigned # <<>>
                THEN [documents EXCEPT ![x.doc].assigned_bundles = x.assigned[1]]
                ELSE documents
        bs0 == IF x.bundle_deleted
               THEN [b \in DOMAIN bundles \ {x.bundle} |-> bundles[b]]
               ELSE bundles
        bs == IF x.bundle \in DOMAIN bs0 /\ (x.snapshot # <<>> \/ x.touched)
              THEN [bs0 EXCEPT ![x.bundle].documents_snapshot =
                                   IF x.snapshot # <<>> THEN x.snapshot[1] ELSE @,
                               ![x.bundle].updated_at = x.tnow]
              ELSE bs0
    IN [Store EXCEPT !.documents = docs, !.bundles = bs,
                     !.bundle_documents =
                         (bundle_documents \ x.join_deleted) \cup x.join_added]

JoinKeys(rows) == {<<j.bundle_id, j.document_id>> : j \in rows}

\* a store whose writes never wait for a row lock
NeverBlocked(p) == FALSE

\* the statement transaction p is about to run waits for a row lock
Blocked(p) ==
    LET x == tx[p]
        key == <<x.bundle, x.doc>>
    IN \E q \in Procs \ {p} :
          /\ Active(q)
          /\ CASE x.pc = "add_insert" ->
                      key \in JoinKeys(tx[q].join_added \cup tx[q].join_deleted)
               [] x.pc = "rm_delete" -> key \in JoinKeys(tx[q].join_deleted)
               [] x.pc = "upd_write" ->
                      tx[q].doc = x.doc /\ tx[q].assigned # <<>>
               [] x.pc \in {"snap_write", "rmsnap_write", "rm_cleanup"} ->
                      /\ tx[q].bundle = x.bundle
                      /\ tx[q].snapshot # <<>> \/ tx[q].touched \/ tx[q].bundle_deleted
               [] OTHER -> FALSE

Fail(x, e) == [x EXCEPT !.err = e, !.pc = "rollback"]

\* add_document_to_bundle: select id, org_id from openai.bundles
StmtSelectBundle(x, v) ==
    IF x.bundle \notin DOMAIN v.db.bundles THEN Fail(x, "bundle_not_found")
    ELSE [x EXCEPT !.bundle_org = v.db.bundles[x.bundle].org_id, !.pc = "add_doc"]

\* add_document_to_bundle: _get_document_row and the tenant comparison
StmtSelectDocument(x, v) ==
    LET t == _get_document_row(v, x.doc)
    IN IF t.err # "" THEN Fail(x, t.err)
       ELSE IF v.db.documents[x.doc].org_id # x.bundle_org
       THEN Fail(x, "org_mismatch")
       ELSE [x EXCEPT !.doc_type = _normalize_document_label(
                                       v.db.documents[x.doc].classification_label),
                      !.pc = "add_check"]

\* add_document_to_bundle: select 1 from openai.bundle_documents
StmtPreCheck(x, v) ==
    IF MembershipConflict(v, x.doc, x.doc_type) THEN Fail(x, "membership_conflict")
    ELSE [x EXCEPT !.pc = "add_snapshot"]

\* add_document_to_bundle: doc_snapshot = _get_document_snapshot(...)
StmtDocumentSnapshot(x, v) ==
    [x EXCEPT !.doc_snapshot = <<_get_document_snapshot(v, x.doc)>>,
              !.pc = "add_insert"]

\* add_document_to_bundle: insert into openai.bundle_documents
StmtInsertJoin(x, v) ==
    LET t == InsertJoinRow(v, x.bundle, x.doc, x.doc_type)
    IN [x EXCEPT !.join_added = @ \cup (t.db.bundle_documents \ v.db.bundle_documents),
                 !.pc = "upd_read"]

\* _update_document_assigned_bundles: row = _get_document_row(...)
StmtReadAssigned(x, v) ==
    LET t == _get_document_row(v, x.doc)
    IN IF t.err # "" THEN Fail(x, t.err)
       ELSE [x EXCEPT !.bundle_ids = v.db.documents[x.doc].assigned_bundles,
                      !.pc = "upd_write"]

\* _update_document_assigned_bundles: the update, with the list the call
\* computed from the row it read
StmtWriteAssigned(x, v) ==
    LET t == _update_document_assigned_bundles(
                 [v EXCEPT !.db.documents[x.doc].assigned_bundles = x.bundle_ids],
                 x.doc,
                 IF x.op = "add" THEN x.bundle ELSE None,
                 IF x.op = "remove" THEN x.bundle ELSE None)
    IN [x EXCEPT !.assigned = <<t.db.documents[x.doc].assigned_bundles>>,
                 !.pc = IF x.op = "add" THEN "snap_read" ELSE "rmsnap_read"]

\* _append_bundle_snapshot: select documents_snapshot from openai.bundles
StmtReadSnapshot(x, v) ==
    IF x.bundle \notin DOMAIN v.db.bundles THEN Fail(x, "bundle_not_found")
    ELSE [x EXCEPT !.arr = v.db.bundles[x.bundle].documents_snapshot,
                   !.pc = "snap_write"]

\* _append_bundle_snapshot: the update, with the array the call filtered;
\* it matches no row when the bundle row is gone by now
StmtWriteSnapshot(x, v) ==
    IF x.bundle \notin DOMAIN v.db.bundles THEN [x EXCEPT !.pc = "commit"]
    ELSE LET t == _append_bundle_snapshot(
                      [v EXCEPT !.db.bundles[x.bundle].documents_snapshot = x.arr],
                      x.bundle, x.doc_snapshot[1], x.tnow)
         IN [x EXCEPT !.snapshot = <<t.db.bundles[x.bundle].documents_snapshot>>,
                      !.pc = "commit"]

\* remove_document_from_bundle: delete from openai.bundle_documents
StmtDeleteJoin(x, v) ==
    LET t == DeleteJoinRow(v, x.bundle, x.doc)
    IN [x EXCEPT !.join_deleted = @ \cup (v.db.bundle_documents \ t.db.bundle_documents),
                 !.pc = "upd_read"]

\* _remove_bundle_snapshot: the select, returning when there is no row
StmtReadSnapshotForRemove(x, v) ==
    IF x.bundle \notin DOMAIN v.db.bundles THEN [x EXCEPT !.pc = "rm_count"]
    ELSE [x EXCEPT !.arr = v.db.bundles[x.bundle].documents_snapshot,
                   !.pc = "rmsnap_write"]

\* _remove_bundle_snapshot: the update, with the array the call filtered
StmtWriteSnapshotForRemove(x, v) ==
    IF x.bundle \notin DOMAIN v.db.bundles THEN [x EXCEPT !.pc = "rm_count"]
    ELSE LET t == _remove_bundle_snapshot(
                      [v EXCEPT !.db.bundles[x.bundle].documents_snapshot = x.arr],
                      x.bundle, x.doc, x.tnow)
         IN [x EXCEPT !.snapshot = <<t.db.bundles[x.bundle].documents_snapshot>>,
                      !.pc = "rm_count"]

\* remove_document_from_bundle: select count(*) from openai.bundle_documents
StmtCount(x, v) ==
    [x EXCEPT !.remaining = Cardinality({j \in v.db.bundle_documents :
                                             j.bundle_id = x.bundle}),
              !.pc = "rm_cleanup"]

\* remove_document_from_bundle: delete the bundle row or touch updated_at
StmtCleanupOrTouch(x, v) ==
    IF x.bundle \notin DOMAIN v.db.bundles THEN [x EXCEPT !.pc = "commit"]
    ELSE IF x.remaining = 0 THEN [x EXCEPT !.bundle_deleted = TRUE, !.pc = "commit"]
    ELSE [x EXCEPT !.touched = TRUE, !.pc = "commit"]

\* the next statement of transaction p
Exec(p) ==
    LET x == tx[p]
        v == Begin(View(p))
    IN CASE x.pc = "add_bundle" -> StmtSelectBundle(x, v)
         [] x.pc = "add_doc" -> StmtSelectDocument(x, v)
         [] x.pc = "add_check" -> StmtPreCheck(x, v)
         [] x.pc = "add_snapshot" -> StmtDocumentSnapshot(x, v)
         [] x.pc = "add_insert" -> StmtInsertJoin(x, v)
         [] x.pc = "upd_read" -> StmtReadAssigned(x, v)
         [] x.pc = "upd_write" -> StmtWriteAssigned(x, v)
         [] x.pc = "snap_read" -> StmtReadSnapshot(x, v)
         [] x.pc = "snap_write" -> StmtWriteSnapshot(x, v)
         [] x.pc = "rm_delete" -> StmtDeleteJoin(x, v)
         [] x.pc = "rmsnap_read" -> StmtReadSnapshotForRemove(x, v)
         [] x.pc = "rmsnap_write" -> StmtWriteSnapshotForRemove(x, v)
         [] x.pc = "rm_count" -> StmtCount(x, v)
         [] OTHER -> StmtCleanupOrTouch(x, v)

Statements ==
    {"add_bundle", "add_doc", "add_check", "add_snapshot", "add_insert",
     "upd_read", "upd_write", "snap_read", "snap_write", "rm_delete",
     "rmsnap_read", "rmsnap_write", "rm_count", "rm_cleanup"}

\* a caller enters add_document_to_bundle or remove_document_from_bundle:
\* psycopg.connect(...) opens the transaction
ConcStart(p, op, bundle_id, document_id) ==
    /\ tx[p].pc = "idle"
    /\ tx' = [q \in Procs |->
                 IF q = p
                 THEN [Idle EXCEPT !.pc = IF op = "add" THEN "add_bundle" ELSE "rm_delete",
                                   !.op = op, !.bundle = bundle_id, !.doc = document_id,
                                   !.before = {j.bundle_id : j \in {k \in bundle_documents :
                                                   k.document_id = document_id}},
                                   !.tnow = now + 1,
                                   !.overlapped = \E r \in Procs \ {p} : Active(r)]
                 ELSE IF Active(q) THEN [tx[q] EXCEPT !.overlapped = TRUE]
                 ELSE tx[q]]
    /\ now' = now + 1
    /\ UNCHANGED <<documents, parents, children, bundles, bundle_documents,
                   nextDocId, nextRowId, nextBundleId, ctx, last, probe>>

\* transaction p runs its next statement
ConcStep(p) ==
    /\ tx[p].pc \in Statements
    /\ ~Blocked(p)
    /\ tx' = [tx EXCEPT ![p] = Exec(p)]
    /\ UNCHANGED <<documents, parents, children, bundles, bundle_documents,
                   nextDocId, nextRowId, nextBundleId, ctx, now, last, probe>>

\* the call leaves its connection block: conn.commit() or the rollback of
\* a raised exception
ConcFinish(p) ==
    /\ tx[p].pc \in {"commit", "rollback"}
    /\ Apply(Finish(Store, [db |-> View(p), err |-> tx[p].err, aborted |-> FALSE]))
    /\ tx' = [tx EXCEPT ![p].pc = "done"]
    /\ last' = Outcome(tx[p].op, tx[p].err, tx[p].doc, tx[p].bundle)
    /\ UNCHANGED <<ctx, now, probe>>

Init ==
    /\ documents = [d \in {} |-> None]
    /\ parents = {}
    /\ children = {}
    /\ bundles = [b \in {} |-> None]
    /\ bundle_documents = {}
    /\ nextDocId = 1
    /\ nextRowId = 1
    /\ nextBundleId = 1
    /\ ctx = [org_id |-> None, document_id |-> None]
    /\ now = 0
    /\ last = Outcome("init", "", None, None)
    /\ tx = NoTx
    /\ probe = NoProbe

\* the uploads of the bundle lifecycle: a document of every membership
\* class, with and without the key number a bundle needs, in two tenants
Upload(org, w) == [org |-> org, result |-> w]

UploadResults ==
    {Upload(1, Result("PURCHASE_ORDER", "purchase_order", TRUE, <<>>)),
     Upload(1, Result("PURCHASE_ORDER", "purchase_order", FALSE, <<>>)),
     Upload(1, Result("cold_storage_invoice", "cold_storage_invoice", TRUE, <<>>)),
     Upload(1, Result("bol", "bol", TRUE, <<>>)),
     Upload(1, Result("receipt", "inspection", TRUE, <<>>)),
     Upload(2, Result(" Invoice ", "invoice", TRUE, <<>>))}

\* uploads, bundle operations and soft deletes in any order
Next ==
    \/ \E u \in UploadResults :
           UploadRun(u.org, u.result.label, u.result.type, u.result.payload, "ok")
    \/ \E document_id \in DocIds, org_id \in Orgs :
           CreateBundleForDocument(document_id, org_id)
    \/ \E bundle_id \in BundleIds, document_id \in DocIds :
           AddDocumentToBundle(bundle_id, document_id)
    \/ \E bundle_id \in BundleIds, document_id \in DocIds :
           RemoveDocumentFromBundle(bundle_id, document_id)
    \/ \E document_id \in DocIds : SoftDeleteDocument(document_id)

Spec == Init /\ [][Next]_vars

\* insert_extraction_result on every input class, with contexts built fresh
\* or passed again, and soft deletes
StoreNext ==
    \/ \E org \in {1, None} : NewContext(org)
    \/ \E w \in StoreResults : InsertRejected(w.label, w.type)
    \/ \E w \in StoreResults, snap \in SnapshotOutcomes :
           InsertExtractionResult(w.label, w.type, w.payload, snap)
    \/ \E document_id \in DocIds : SoftDeleteDocument(document_id)

SpecStore == Init /\ [][StoreNext]_vars

\* the tables before any call
EmptyStore ==
    [documents |-> [d \in {} |-> None], parents |-> {}, children |-> {},
     bundles |-> [b \in {} |-> None], bundle_documents |-> {},
     nextDocId |-> 1, nextRowId |-> 1, nextBundleId |-> 1]

\* the tables after one upload, one create_bundle_for_document call and one
\* add_document_to_bundle call that ran alone
Uploaded(store, u) ==
    Finish(store, InsertRun(store, u.result.label, u.result.type, u.result.payload,
                            "ok", [org_id |-> u.org, document_id |-> None]).t)

Seeded(store, document_id, org_id, tnow) ==
    Finish(store, CreateRun(store, document_id, org_id,
                            CHOOSE k \in _build_bundle_key_fields(
                                Begin(store), document_id,
                                store.documents[document_id].classification_label) : TRUE,
                            tnow))

Added(store, bundle_id, document_id, tnow) ==
    Finish(store, AddRun(store, bundle_id, document_id, tnow))

\* the states concurrent calls start from: document 1 is a purchase order
\* or a bill of lading, document 2 a cold-storage invoice that seeded
\* bundles 1 and 2; document 1 is in no bundle or a member of bundle 1
ConcStores ==
    LET cold == Upload(1, Result("cold_storage_invoice", "cold_storage_invoice",
                                 TRUE, <<>>))
        firsts == {Upload(1, Result("PURCHASE_ORDER", "purchase_order", TRUE, <<>>)),
                   Upload(1, Result("bol", "bol", TRUE, <<>>))}
        two(u) == Seeded(Seeded(Uploaded(Uploaded(EmptyStore, u), cold), 2, 1, 1),
                         2, 1, 2)
    IN {[store |-> two(u), now |-> 2] : u \in firsts}
       \cup {[store |-> Added(two(u), 1, 1, 3), now |-> 3] : u \in firsts}

ConcInit ==
    /\ \E s \in ConcStores :
          /\ documents = s.store.documents
          /\ parents = s.store.parents
          /\ children = s.store.children
          /\ bundles = s.store.bundles
          /\ bundle_documents = s.store.bundle_documents
          /\ nextDocId = s.store.nextDocId
          /\ nextRowId = s.store.nextRowId
          /\ nextBundleId = s.store.nextBundleId
          /\ now = s.now
    /\ ctx = [org_id |-> None, document_id |-> None]
    /\ last = Outcome("init", "", None, None)
    /\ tx = NoTx
    /\ probe = NoProbe

\* two callers, each running one add or remove call, statement by statement
ConcNext ==
    \/ \E p \in Procs, op \in {"add", "remove"},
          bundle_id \in BundleIds, document_id \in DocIds :
           ConcStart(p, op, bundle_id, document_id)
    \/ \E p \in Procs : ConcStep(p)
    \/ \E p \in Procs : ConcFinish(p)

SpecConc == ConcInit /\ [][ConcNext]_vars

\* a normalizer is applied to the value
Normalize(fn) ==
    /\ probe.fn = ""
    /\ probe' = [probe EXCEPT !.fn = fn, !.out = Call(fn, probe.value)]
    /\ UNCHANGED <<documents, parents, children, bundles, bundle_documents,
                   nextDocId, nextRowId, nextBundleId, ctx, now, last, tx>>

\* a mapper builds the date columns of its rows from the value
MapDates(extraction_type) ==
    /\ probe.fn = ""
    /\ probe' = [probe EXCEPT !.fn = extraction_type,
                              !.out = Returns(DateColumns(extraction_type, probe.value))]
    /\ UNCHANGED <<documents, parents, children, bundles, bundle_documents,
                   nextDocId, nextRowId, nextBundleId, ctx, now, last, tx>>

ValuesInit ==
    /\ documents = EmptyStore.documents
    /\ parents = {}
    /\ children = {}
    /\ bundles = EmptyStore.bundles
    /\ bundle_documents = {}
    /\ nextDocId = 1
    /\ nextRowId = 1
    /\ nextBundleId = 1
    /\ ctx = [org_id |-> None, document_id |-> None]
    /\ now = 0
    /\ last = Outcome("init", "", None, None)
    /\ tx = NoTx
    /\ \E v \in Values : probe = [NoProbe EXCEPT !.value = v]

\* every normalizer and every mapper on every value
ValuesNext ==
    \/ \E fn \in Normalizers : Normalize(fn)
    \/ \E extraction_type \in ExtractionTypes : MapDates(extraction_type)

SpecValues == ValuesInit /\ [][ValuesNext]_vars

\* ------------------------------------------------------------ properties
Members(bundle_id) == {j.document_id : j \in {k \in bundle_documents :
                                                  k.bundle_id = bundle_id}}

BundlesOf(document_id) == {j.bundle_id : j \in {k \in bundle_documents :
                                                    k.document_id = document_id}}

Restricted(document_id) ==
    /\ document_id \in DOMAIN documents
    /\ documents[document_id].classification_label \in {"purchase_order", "invoice"}

HasSnapshotEntry(bundle_id, document_id) ==
    /\ bundle_id \in DOMAIN bundles
    /\ \E i \in DOMAIN bundles[bundle_id].documents_snapshot :
           bundles[bundle_id].documents_snapshot[i].document_id = document_id

\* C1: a document classified purchase_order or invoice has join rows in at
\* most one bundle, in every state create/add/remove calls can reach.
C1_SingleMembership ==
    \A d \in DOMAIN documents : Restricted(d) => Cardinality(BundlesOf(d)) <= 1

\* C2: when a purchase_order or invoice document is a member of a bundle A,
\* add_document_to_bundle(B, document) with B # A fails, and afterwards B
\* holds no join row, no assigned_bundles entry and no snapshot entry of it.
C2_ConflictRejected ==
    (/\ last.op = "add"
     /\ Restricted(last.doc)
     /\ \E a \in BundlesOf(last.doc) : a # last.bundle)
    => (/\ last.err # ""
        /\ last.bundle \notin BundlesOf(last.doc)
        /\ last.bundle \notin Range(documents[last.doc].assigned_bundles)
        /\ ~HasSnapshotEntry(last.bundle, last.doc))

\* C7: every bundle row has at least one join row.
C7_NoEmptyBundle ==
    \A b \in DOMAIN bundles : Members(b) # {}

\* a remove call deleted the last join row of a bundle and its bundle row
C7_Witness ==
    /\ last.op = "remove" /\ last.err = "" /\ last.written = 1
    /\ last.bundle \notin DOMAIN bundles

\* C8: removing a member d of a bundle B that has other members keeps B,
\* sets its updated_at to the time of the call, deletes exactly the join row
\* (B, d), takes B out of d's assigned_bundles and d's entry out of B's
\* documents_snapshot, and leaves every other row as it was.
C8_RemoveNonLast ==
    [][\A b \in BundleIds, d \in DocIds :
          (/\ last'.op = "remove" /\ last'.err = ""
           /\ last'.bundle = b /\ last'.doc = d
           /\ d \in Members(b)
           /\ Members(b) # {d})
          => (/\ b \in DOMAIN bundles'
              /\ now' > bundles[b].updated_at
              /\ bundles'[b].updated_at = now'
              /\ bundle_documents' =
                     {j \in bundle_documents : ~(j.bundle_id = b /\ j.document_id = d)}
              /\ Cardinality(bundle_documents') = Cardinality(bundle_documents) - 1
              /\ documents'[d].assigned_bundles =
                     SelectSeq(documents[d].assigned_bundles, LAMBDA x : x # b)
              /\ bundles'[b].documents_snapshot =
                     SelectSeq(bundles[b].documents_snapshot,
                               LAMBDA x : x.document_id # d)
              /\ Len(bundles'[b].documents_snapshot) =
                     Len(bundles[b].documents_snapshot) - 1
              /\ \A e \in DOMAIN documents \ {d} : documents'[e] = documents[e]
              /\ \A c \in DOMAIN bundles \ {b} :
                     c \in DOMAIN bundles' /\ bundles'[c] = bundles[c]
              /\ documents'[d] = [documents[d] EXCEPT !.assigned_bundles =
                                      documents'[d].assigned_bundles]
              /\ bundles'[b] = [bundles[b] EXCEPT
                                    !.updated_at = now',
                                    !.documents_snapshot =
                                        bundles'[b].documents_snapshot])]_vars

\* a remove call deleted a join row of a bundle that keeps other members
C8_Witness ==
    /\ last.op = "remove" /\ last.err = "" /\ last.written = 1
    /\ last.bundle \in DOMAIN bundles
    /\ Members(last.bundle) # {}
    /\ bundles[last.bundle].updated_at = now

\* the errors insert_extraction_result raises for invalid input
ValidationErrors == {"validation", "unsupported_type", "org_required"}

\* C3: when insert_extraction_result raises a validation error, no parent
\* row and no child row the call wrote exists afterwards.
C3_Atomicity ==
    [][(last'.op = "insert" /\ last'.err \in ValidationErrors)
       => (/\ parents' = parents
           /\ children' = children
           /\ nextRowId' = nextRowId)]_vars

\* a call failed on an invalid entry after it had inserted the parent row
\* and an earlier child row
C3_Witness ==
    /\ last.op = "insert" /\ last.err = "validation"
    /\ last.written >= 2

\* C4: when a mapper fails with a validation error, the Document row of the
\* run persists and its status is failed.
C4_FailedMarker ==
    (last.op = "insert" /\ last.err = "validation")
    => (/\ last.doc \in DOMAIN documents
        /\ documents[last.doc].status = "failed")

\* C5: when the statement that writes document_data fails, the call still
\* returns the inserted ids, and the Document row, its final status and the
\* parent row of the call are committed.
C5_BestEffortSnapshot ==
    (last.op = "insert" /\ last.snap \in {"client_error", "server_error"})
    => (/\ last.err = ""
        /\ last.doc \in DOMAIN documents
        /\ documents[last.doc].status \in {"stored", "failed"}
        /\ last.parent # None => \E p \in parents :
                                    p.id = last.parent /\ p.document_id = last.doc)

\* the transitions of Document.status
StatusTransitions ==
    {<<"classified", "extracted">>, <<"extracted", "stored">>,
     <<"classified", "failed">>, <<"extracted", "failed">>,
     <<"stored", "soft_deleted">>, <<"failed", "soft_deleted">>}

\* C6: the committed status of a document changes only along
\* classified->extracted->stored, classified|extracted->failed and
\* stored|failed->soft_deleted.
C6_StatusMachine ==
    [][\A d \in DOMAIN documents \cap DOMAIN documents' :
          documents'[d].status # documents[d].status
          => <<documents[d].status, documents'[d].status>> \in StatusTransitions]_vars

\* C9: every Document owns at most one parent extraction record.
C9_OneParent ==
    \A d \in DOMAIN documents :
        Cardinality({p \in parents : p.document_id = d}) <= 1

\* C10: an insert_extraction_result call whose context already carries a
\* document id gets that id back from the registry and inserts no Document
\* row, whatever the classification is.
C10_IdempotentReuse ==
    [][(/\ last'.op = "insert"
        /\ ctx.document_id # None
        /\ last'.err \notin {"missing_type", "missing_label"})
       => (/\ last'.doc = ctx.document_id
           /\ ctx'.document_id = ctx.document_id
           /\ DOMAIN documents' = DOMAIN documents
           /\ nextDocId' = nextDocId)]_vars

\* a call on a context that carried a document id committed
C10_Witness ==
    /\ last.op = "insert" /\ last.reused /\ last.err = ""
    /\ last.doc \in DOMAIN documents
    /\ ctx.document_id = last.doc

\* C11: when two add_document_to_bundle calls run at the same time on the
\* same purchase_order or invoice document, which is in no bundle, and on
\* two different bundles, at most one of them commits, and the other leaves
\* no join row, no assigned_bundles entry and no snapshot entry in its bundle.
C11_ConcurrentSingleMembership ==
    \A p \in Procs : \A q \in Procs \ {p} :
        (/\ tx[p].pc = "done" /\ tx[q].pc = "done"
         /\ tx[p].op = "add" /\ tx[q].op = "add"
         /\ tx[p].doc = tx[q].doc /\ tx[p].bundle # tx[q].bundle
         /\ Restricted(tx[p].doc)
         /\ tx[p].before = {} /\ tx[q].before = {})
        => (/\ tx[p].err # "" \/ tx[q].err # ""
            /\ tx[p].err # "" =>
                   (/\ tx[p].bundle \notin BundlesOf(tx[p].doc)
                    /\ tx[p].bundle \notin Range(documents[tx[p].doc].assigned_bundles)
                    /\ ~HasSnapshotEntry(tx[p].bundle, tx[p].doc)))

\* a document without a PO number and without an invoice number
NoKeyNumber(document_id) ==
    \A r \in parents : r.document_id = document_id => r.number = None

\* C12: every bundle row has a key_po_number or a key_invoice_number, and
\* create_bundle_for_document on a document that has neither number raises
\* and writes no bundle row, join row, snapshot entry or assigned_bundles
\* entry.
C12_KeyPresent ==
    [][/\ \A b \in DOMAIN bundles' :
              bundles'[b].key_po_number # None \/ bundles'[b].key_invoice_number # None
       /\ (last'.op = "create" /\ NoKeyNumber(last'.doc))
          => (/\ last'.err # ""
              /\ bundles' = bundles
              /\ bundle_documents' = bundle_documents
              /\ documents' = documents
              /\ nextBundleId' = nextBundleId)]_vars

\* create_bundle_for_document raised on a purchase order without a number
C12_Witness ==
    /\ last.op = "create" /\ last.err = "missing_keys"
    /\ last.doc \in DOMAIN documents
    /\ documents[last.doc].classification_label = "purchase_order"
    /\ NoKeyNumber(last.doc)

\* the labels of the documents that may seed a bundle
SeedLabels == {"purchase_order", "invoice", "cold_storage_invoice"}

\* C13: create_bundle_for_document on a document whose classification label
\* is not purchase_order, invoice or cold_storage_invoice raises and leaves
\* every table as it was; a call that succeeds seeded one of those three.
C13_SeedLabels ==
    [][(last'.op = "create" /\ last'.doc \in DOMAIN documents)
       => (/\ last'.err = "" =>
                  documents[last'.doc].classification_label \in SeedLabels
           /\ documents[last'.doc].classification_label \notin SeedLabels =>
                  (/\ last'.err # ""
                   /\ documents' = documents
                   /\ parents' = parents
                   /\ children' = children
                   /\ bundles' = bundles
                   /\ bundle_documents' = bundle_documents
                   /\ nextBundleId' = nextBundleId))]_vars

\* create_bundle_for_document raised on a document of the caller's org
\* that is labelled bol or unknown
C13_Witness ==
    /\ last.op = "create" /\ last.err = "doc_type"
    /\ documents[last.doc].classification_label \in {"bol", "unknown"}

\* C14: add_document_to_bundle on a bundle and a document of different orgs
\* raises, and no join row, assigned_bundles entry or snapshot entry is
\* written and the bundle's updated_at stays as it was.
C14_OrgMismatch ==
    [][(/\ last'.op = "add"
        /\ last'.bundle \in DOMAIN bundles
        /\ last'.doc \in DOMAIN documents
        /\ documents[last'.doc].org_id # bundles[last'.bundle].org_id)
       => (/\ last'.err # ""
           /\ bundle_documents' = bundle_documents
           /\ documents' = documents
           /\ bundles' = bundles)]_vars

\* add_document_to_bundle raised on a document of another org than the
\* bundle's
C14_Witness ==
    /\ last.op = "add" /\ last.err = "org_mismatch"
    /\ last.bundle \in DOMAIN bundles
    /\ documents[last.doc].org_id # bundles[last.bundle].org_id

\* the rejections of add_document_to_bundle the claim calls membership
\* conflicts, and the generic validation errors of the same call
ConflictErrors == {"membership_conflict", "org_mismatch"}

GenericErrors == {"bundle_not_found", "document_not_found"}

\* C15: a membership-conflict rejection of add_document_to_bundle reaches
\* the caller in an error category other than that of 'Bundle not found'
\* and 'Document not found', and the caller answers it differently.
C15_DistinctCategory ==
    (last.op = "add" /\ last.err \in ConflictErrors)
    => \A e \in GenericErrors :
           /\ ExceptionType(last.err) # ExceptionType(e)
           /\ api_add_to_bundle(last.err) # api_add_to_bundle(e)

\* the ids list_unassigned_documents returns
Unassigned(org_id) == {r.id : r \in list_unassigned_documents(org_id)}

\* C16: list_unassigned_documents(org) returns the documents of the org
\* that have no join row and are not soft-deleted, and no others.
C16_ListUnassigned ==
    \A org \in Orgs :
        Unassigned(org) = {d \in DOMAIN documents :
                               /\ documents[d].org_id = org
                               /\ BundlesOf(d) = {}
                               /\ ~documents[d].deleted}

\* a document taken out of its bundle is listed again, while another
\* document of the org is left out of the listing
C16_Witness ==
    /\ last.op = "remove" /\ last.err = "" /\ last.written = 1
    /\ last.doc \in Unassigned(documents[last.doc].org_id)
    /\ \E d \in DOMAIN documents :
          /\ documents[d].org_id = documents[last.doc].org_id
          /\ d \notin Unassigned(documents[d].org_id)

\* C17: soft_delete_document(d) changes d's deleted_at and status and
\* nothing else: join rows, every assigned_bundles, bundle rows and their
\* documents_snapshot stay, and d is not in the unassigned listing afterwards.
C17_SoftDeleteFrame ==
    [][(last'.op = "soft_delete" /\ last'.doc \in DOMAIN documents)
       => (/\ bundle_documents' = bundle_documents
           /\ bundles' = bundles
           /\ parents' = parents /\ children' = children
           /\ DOMAIN documents' = DOMAIN documents
           /\ \A e \in DOMAIN documents \ {last'.doc} : documents'[e] = documents[e]
           /\ documents'[last'.doc] =
                  [documents[last'.doc] EXCEPT !.status = "soft_deleted",
                                               !.deleted = TRUE]
           /\ \A org \in Orgs : last'.doc \notin Unassigned(org)')]_vars

\* a member of a bundle was soft-deleted and is still a member
C17_Witness ==
    /\ last.op = "soft_delete"
    /\ last.doc \in DOMAIN documents
    /\ documents[last.doc].deleted
    /\ BundlesOf(last.doc) # {}
    /\ HasSnapshotEntry(CHOOSE b \in BundlesOf(last.doc) : TRUE, last.doc)

\* the document ids of the entries of a bundle's documents_snapshot
SnapshotIds(bundle_id) ==
    {bundles[bundle_id].documents_snapshot[i].document_id :
         i \in DOMAIN bundles[bundle_id].documents_snapshot}

\* C18: a bundle's documents_snapshot holds one entry for every document
\* with a join row in the bundle, none for any other document and no two
\* entries of one document.
C18_SnapshotMatchesMembers ==
    \A b \in DOMAIN bundles :
        /\ SnapshotIds(b) = Members(b)
        /\ Len(bundles[b].documents_snapshot) = Cardinality(Members(b))

\* a member of a bundle of two was added to it again
C18_Witness ==
    /\ last.op = "add" /\ last.err = "" /\ last.written = 0
    /\ last.bundle \in DOMAIN bundles
    /\ last.doc \in Members(last.bundle)
    /\ Len(bundles[last.bundle].documents_snapshot) = 2

\* C19: for every date or timestamp field of every extraction type the row
\* gets the typed column and the raw column, and when the field holds text
\* that does not parse, the typed column is absent and the raw column holds
\* the text.
C19_RawPreserved ==
    probe.fn \in ExtractionTypes
    => \A f \in DateFields(probe.fn) :
           /\ \E c \in probe.out.val : c.column = f.column
           /\ f.raw # "" /\ \E c \in probe.out.val : c.column = f.raw
           /\ (probe.value.kind = "str" /\ strip(probe.value.text) # <<>>
               /\ \E c \in probe.out.val : c.column = f.column /\ c.val = PyNone)
              => \E c \in probe.out.val :
                     /\ c.column = f.raw
                     /\ c.val = Py("str", strip(probe.value.text))

\* C20: no normalizer raises, whatever the value is.
C20_NeverRaises ==
    probe.fn \in Normalizers => probe.out.raised = ""

\* a non-negative number written in digits, with an optional fraction
PlainNumber(s) == s # <<>> /\ s[1] # "-" /\ MatchLength(s, 1) = Len(s)

\* C21: _parse_percentage_range returns (a, b) for a text 'a-b%' with
\* non-negative numbers a and b, (x, x) for a text with a single number x,
\* and (None, None) for a text with no number.
C21_PercentageRange ==
    (probe.fn = "_parse_percentage_range" /\ probe.value.kind = "str")
    => LET s == strip(probe.value.text)
           numbers == FindAll(s, 1)
       IN /\ probe.out.raised = ""
          /\ \A i \in DOMAIN s :
                 (/\ s[i] = "-" /\ s[Len(s)] = "%"
                  /\ PlainNumber(SubSeq(s, 1, i - 1))
                  /\ PlainNumber(SubSeq(s, i + 1, Len(s) - 1)))
                 => probe.out.val = <<Py("Decimal", SubSeq(s, 1, i - 1)),
                                      Py("Decimal", SubSeq(s, i + 1, Len(s) - 1))>>
          /\ Len(numbers) = 1
                 => probe.out.val = <<Py("Decimal", numbers[1]),
                                      Py("Decimal", numbers[1])>>
          /\ Len(numbers) = 0 => probe.out.val = <<PyNone, PyNone>>

\* C22: after any series of create, add and remove calls, a document's
\* assigned_bundles holds bundle id B exactly when the join row
\* (B, document) exists, and holds no id twice.
C22_AssignedMatchesJoinRows ==
    \A d \in DOMAIN documents :
        /\ Range(documents[d].assigned_bundles) = BundlesOf(d)
        /\ Len(documents[d].assigned_bundles) = Cardinality(BundlesOf(d))

\* a member of two bundles was taken out of one of them
C22_Witness ==
    /\ last.op = "remove" /\ last.err = "" /\ last.written = 1
    /\ Len(documents[last.doc].assigned_bundles) = 1
    /\ BundlesOf(last.doc) # {}
    /\ last.bundle \notin BundlesOf(last.doc)

\* two calls that ran at the same time and both committed
BothCommitted(p, q) ==
    /\ tx[p].pc = "done" /\ tx[q].pc = "done"
    /\ tx[p].err = "" /\ tx[q].err = ""
    /\ tx[p].overlapped /\ tx[q].overlapped

\* C23: when two add or remove calls that run at the same time change the
\* membership of one document that is not a purchase order or invoice in two
\* different bundles and both commit, the document's assigned_bundles holds
\* exactly the bundles that hold a join row for it.
C23_NoLostAssignedUpdate ==
    \A p \in Procs : \A q \in Procs \ {p} :
        (/\ BothCommitted(p, q)
         /\ tx[p].doc = tx[q].doc /\ tx[p].bundle # tx[q].bundle
         /\ ~Restricted(tx[p].doc))
        => Range(documents[tx[p].doc].assigned_bundles) = BundlesOf(tx[p].doc)

\* C24: when two add or remove calls that run at the same time add or remove
\* two different documents to or from one bundle and both commit, the
\* bundle's documents_snapshot has exactly one entry for each document with a
\* join row in the bundle.
C24_NoLostSnapshotUpdate ==
    \A p \in Procs : \A q \in Procs \ {p} :
        (/\ BothCommitted(p, q)
         /\ tx[p].bundle = tx[q].bundle /\ tx[p].doc # tx[q].doc
         /\ tx[p].bundle \in DOMAIN bundles)
        => (/\ SnapshotIds(tx[p].bundle) = Members(tx[p].bundle)
            /\ Len(bundles[tx[p].bundle].documents_snapshot) =
                   Cardinality(Members(tx[p].bundle)))

\* C25: when two remove calls that run at the same time take the last two
\* members out of one bundle and both commit, the bundle row is deleted.
C25_ConcurrentCleanup ==
    \A p \in Procs : \A q \in Procs \ {p} :
        (/\ BothCommitted(p, q)
         /\ tx[p].op = "remove" /\ tx[q].op = "remove"
         /\ tx[p].bundle = tx[q].bundle /\ tx[p].doc # tx[q].doc
         /\ Members(tx[p].bundle) = {})
        => tx[p].bundle \notin DOMAIN bundles

\* two overlapping remove calls took the two members of a bundle out of it
C25_Witness ==
    \E p \in Procs : \E q \in Procs \ {p} :
        /\ BothCommitted(p, q)
        /\ tx[p].op = "remove" /\ tx[q].op = "remove"
        /\ tx[p].bundle = tx[q].bundle /\ tx[p].doc # tx[q].doc
        /\ tx[p].bundle \in tx[p].before /\ tx[q].bundle \in tx[q].before
        /\ Members(tx[p].bundle) = {}
        /\ tx[p].bundle \notin DOMAIN bundles

\* C26: after an insert_extraction_result call that raised and was rolled
\* back, the caller's context holds the document id it held before the call
\* or the id of a document that is in the store.
C26_NoDanglingContext ==
    [][(last'.op = "insert" /\ last'.err # "")
       => (\/ ctx'.document_id = ctx.document_id
           \/ ctx'.document_id \in DOMAIN documents')]_vars

\* C27: every document with a join row in a bundle has the org_id of the
\* bundle, and a bundle's org_id is the org_id of its primary document.
C27_TenantIsolation ==
    \A b \in DOMAIN bundles :
        /\ \A d \in Members(b) : documents[d].org_id = bundles[b].org_id
        /\ bundles[b].primary_document_id \in DOMAIN documents
        /\ documents[bundles[b].primary_document_id].org_id = bundles[b].org_id

\* a create call made the second of two bundles of different orgs, each
\* with its seeding document as a member
C27_Witness ==
    /\ last.op = "create" /\ last.err = ""
    /\ \E a \in DOMAIN bundles : \E b \in DOMAIN bundles :
           /\ bundles[a].org_id # bundles[b].org_id
           /\ bundles[a].primary_document_id \in Members(a)
           /\ bundles[b].primary_document_id \in Members(b)

\* C28: a bundle's primary_document_id names a document with a join row in
\* the bundle, also after the seeding document was removed while other
\* members remain.
C28_PrimaryIsMember ==
    \A b \in DOMAIN bundles : bundles[b].primary_document_id \in Members(b)

C30_DeletedGainsNoMembership ==
    [][(/\ last'.op \in {"create", "add"}
        /\ last'.doc \in DOMAIN documents
        /\ documents[last'.doc].deleted)
       => (/\ last'.err # ""
           /\ bundle_documents' = bundle_documents)]_vars

====
